---- MODULE Spec2Model ----
(***************************************************************************)
(* Model of the Ethiopia financial-inclusion data loader                   *)
(* (src/src/data_loader.py): worksheet resolution, column normalisation,   *)
(* record partitioning, the guide loader, the structural validator and the *)
(* saving of processed data; and of the dashboard (src/dashboard/app.py):  *)
(* load_data and the Overview page with its metric derivations.            *)
(*                                                                         *)
(* Strings whose content the code inspects (column names, cell values) are *)
(* sequences of one-character strings, so that str.strip and str.lower are *)
(* computed.  Worksheet names are only ever compared for equality and are  *)
(* plain strings.  A pandas DataFrame is a record of its column labels and *)
(* its rows; every row carries its index label and, as a history field     *)
(* `src`, its position in the file it was read from.                       *)
(***************************************************************************)
EXTENDS Integers, Sequences, FiniteSets, TLC

VARIABLES
    role,         \* which loader operation runs: "unified_data" | "reference_codes"
                  \* | "additional_data"
    file,         \* the raw input file download_data finds for the role
    pc,           \* position in the loader operation
    sheet_names,  \* excel_file.sheet_names
    df,           \* the loaded table: None or <<DataFrame>>
    sheet_used,   \* None or <<name>>
    probe_i,      \* position of the step-2 loop in sheet_names
    reads,        \* history: the pd.read_excel calls issued, in order
    exc,          \* the exception in flight or raised ("" when none)
    ret,          \* the returned value: <<>> | <<main_data, impact_links>> | <<ref_codes>>
                  \* | <<sheets_dict>>
    sheets_dict,  \* load_additional_data_guide: sheet name -> DataFrame
    log,          \* the warnings and errors handed to the logger, in order
    open_handles, \* the file handles that are open
    vdf,          \* validate_data_structure: the caller's table (the argument)
    vdf0,         \* history: the caller's table as it was before the call
    vpc,          \* validate_data_structure: "idle" | "call" | "returned"
    validation_results,  \* None or <<the returned dict>>
    labels,       \* column normalisation: the column labels given
    normalized,   \* column normalisation: the results of the successive applications
    disk,         \* the files of the processed directory: path -> content written
    saves,        \* history: the save_processed_data calls, with the path returned
    artifacts,    \* dashboard: the data/processed directory the dashboard finds
    data,         \* dashboard: the dict load_data fills, key -> loaded artifact
    data_loaded,  \* dashboard: the flag load_data returns
    dpc,          \* dashboard: "idle" | "start" | "loaded" | "rendered"
    screen        \* dashboard: what the Overview page shows

loaderVars == <<role, file, pc, sheet_names, df, sheet_used, probe_i, reads, exc, ret,
                sheets_dict, log, open_handles>>
validatorVars == <<vdf, vdf0, vpc, validation_results>>
normVars == <<labels, normalized>>
saveVars == <<disk, saves>>
dashVars == <<artifacts, data, data_loaded, dpc, screen>>
vars == <<role, file, pc, sheet_names, df, sheet_used, probe_i, reads, exc, ret,
          sheets_dict, log, open_handles,
          vdf, vdf0, vpc, validation_results, labels, normalized, disk, saves,
          artifacts, data, data_loaded, dpc, screen>>

-----------------------------------------------------------------------------
(* Bounds of the explored inputs                                           *)

MaxRows == 3
MaxSheets == 2
MaxNames == 2

(* Program constants                                                       *)

ProbeRows == 10

None == <<>>

-----------------------------------------------------------------------------
(* Strings                                                                 *)

UpperAlpha == <<"A","B","C","D","E","F","G","H","I","J","K","L","M",
                "N","O","P","Q","R","S","T","U","V","W","X","Y","Z">>
LowerAlpha == <<"a","b","c","d","e","f","g","h","i","j","k","l","m",
                "n","o","p","q","r","s","t","u","v","w","x","y","z">>
Whitespace == {" ", "\t", "\n"}

Range(s) == {s[k] : k \in DOMAIN s}

lowerChar(c) ==
    IF \E k \in DOMAIN UpperAlpha : UpperAlpha[k] = c
    THEN LowerAlpha[CHOOSE k \in DOMAIN UpperAlpha : UpperAlpha[k] = c]
    ELSE c

\* str.lower
lower(s) == [k \in DOMAIN s |-> lowerChar(s[k])]

RECURSIVE lstrip(_)
lstrip(s) == IF s # <<>> /\ Head(s) \in Whitespace THEN lstrip(Tail(s)) ELSE s

RECURSIVE rstrip(_)
rstrip(s) ==
    IF s # <<>> /\ s[Len(s)] \in Whitespace THEN rstrip(SubSeq(s, 1, Len(s) - 1)) ELSE s

\* fault variant of strip: removes at most one whitespace character from each end
stripOne(s) ==
    LET a == IF s # <<>> /\ Head(s) \in Whitespace THEN Tail(s) ELSE s
    IN  IF a # <<>> /\ a[Len(a)] \in Whitespace THEN SubSeq(a, 1, Len(a) - 1) ELSE a

\* str.strip
strip(s) == rstrip(lstrip(s))

\* Python's `sub in s` on strings
Contains(s, sub) ==
    \E k \in 0..(Len(s) - Len(sub)) : SubSeq(s, k + 1, k + Len(sub)) = sub

S_record_type == <<"r","e","c","o","r","d","_","t","y","p","e">>
S_indicator == <<"i","n","d","i","c","a","t","o","r">>
S_impact_link == <<"i","m","p","a","c","t","_","l","i","n","k">>
S_pillar == <<"p","i","l","l","a","r">>
S_indicator_code == <<"i","n","d","i","c","a","t","o","r","_","c","o","d","e">>
S_date == <<"d","a","t","e">>
S_nan == <<"n","a","n">>
S_NaT == <<"N","a","T">>

\* inputs: other spellings met in spreadsheets
S_Record_Type_padded == <<" ","R","e","c","o","r","d","_","T","y","p","e"," ">>
S_RECORD_TYPE == <<"R","E","C","O","R","D","_","T","Y","P","E">>
S_Pillar_padded == <<" ","\t","P","i","l","l","a","r"," "," ">>
S_Impact_Link_padded == <<" ","I","m","p","a","c","t","_","L","i","n","k","\t">>
S_IMPACT_LINKS == <<"I","M","P","A","C","T","_","L","I","N","K","S">>
S_observation == <<"o","b","s","e","r","v","a","t","i","o","n">>
S_access == <<"a","c","c","e","s","s">>
S_Obs_Date == <<"O","b","s","_","D","a","t","e">>
S_end_date == <<"e","n","d","_","d","a","t","e">>
S_First_Name == <<"\n","F","i","r","s","t"," ","N","a","m","e">>
S_blank == <<" ","\t">>
S_na == <<"n","/","a">>
S_2021_01_05 == <<"2","0","2","1","-","0","1","-","0","5">>
S_2021_02_30 == <<"2","0","2","1","-","0","2","-","3","0">>

-----------------------------------------------------------------------------
(* Cells and tables                                                        *)

\* a cell: a string, a missing value (NaN), a missing timestamp (NaT) or a
\* timestamp (Day, below)
Str(s) == [k |-> "str", v |-> s]
NaN == [k |-> "nan", v |-> <<>>]
NaT == [k |-> "nat", v |-> <<>>]

\* pd.DataFrame()
EmptyDataFrame == [columns |-> <<>>, rows |-> <<>>]

\* DataFrame.empty
empty(d) == Len(d.columns) = 0 \/ Len(d.rows) = 0

\* a table as it is stored in a file: column labels and the rows of cells
StoredTable(cols, stored) == [columns |-> cols, data |-> stored]

\* the rows pandas builds from stored rows: a fresh RangeIndex 0..n-1
IndexedRows(stored) ==
    [k \in 1..Len(stored) |-> [index |-> k - 1, src |-> k - 1, cells |-> stored[k]]]

\* pd.read_excel(path, sheet_name=...) / pd.read_csv(path)
ReadAll(t) == [columns |-> t.columns, rows |-> IndexedRows(t.data)]

\* pd.read_excel(path, sheet_name=..., nrows=n)
ReadHead(t, n) ==
    [columns |-> t.columns,
     rows |-> IndexedRows(SubSeq(t.data, 1, IF Len(t.data) < n THEN Len(t.data) ELSE n))]

-----------------------------------------------------------------------------
(* The explored inputs                                                     *)

RecordTypeValues ==
    {Str(S_impact_link), Str(S_Impact_Link_padded), Str(S_IMPACT_LINKS),
     Str(S_observation), NaN}
PaddedColumnValues == {Str(S_impact_link), Str(S_Impact_Link_padded), NaN}
OtherValues == {Str(S_access), NaN}

\* the values explored in a column, by the column's label
ColumnValues(label) ==
    CASE label = S_record_type -> RecordTypeValues
      [] label = S_Record_Type_padded -> PaddedColumnValues
      [] label \in {S_pillar, S_Pillar_padded} -> OtherValues
      [] OTHER -> {Str(S_access)}

\* the rows whose j-th cell is drawn from the j-th of the given sets of values
RECURSIVE RowsOver(_)
RowsOver(valueSets) ==
    IF valueSets = <<>> THEN {<<>>}
    ELSE {<<a>> \o r : a \in Head(valueSets), r \in RowsOver(Tail(valueSets))}

\* every stored table with the given column labels and at most maxRows rows
TablesOver(cols, maxRows, Values(_)) ==
    IF cols = <<>>
    THEN {StoredTable(<<>>, <<>>)}
    ELSE LET RowSet == RowsOver([j \in DOMAIN cols |-> Values(cols[j])])
         IN  {StoredTable(cols, stored) : stored \in UNION {[1..n -> RowSet] : n \in 0..maxRows}}

LoaderColumnLists ==
    {<<>>, <<S_record_type>>, <<S_Record_Type_padded>>, <<S_pillar>>, <<S_Pillar_padded>>,
     <<S_indicator, S_record_type>>, <<S_RECORD_TYPE, S_record_type>>}

\* the five-row table of the partition example
ExampleTable ==
    StoredTable(<<S_record_type>>,
                << <<Str(S_observation)>>, <<Str(S_impact_link)>>, <<Str(S_observation)>>,
                   <<Str(S_impact_link)>>, <<Str(S_observation)>> >>)

CsvTables ==
    UNION {TablesOver(cols, MaxRows, ColumnValues) : cols \in LoaderColumnLists}
    \cup {ExampleTable}

SheetNamePool == {"Sheet1", "data", "Data", "codes"}

\* what a worksheet can hold
SheetTables ==
    {StoredTable(<<>>, <<>>),
     StoredTable(<<S_record_type>>, << <<Str(S_impact_link)>>, <<Str(S_observation)>> >>),
     StoredTable(<<S_Record_Type_padded>>, << <<Str(S_impact_link)>> >>),
     StoredTable(<<S_indicator>>, << <<Str(S_access)>> >>),
     StoredTable(<<S_pillar>>, << <<Str(S_access)>> >>)}

Sheets ==
    {[name |-> n, readable |-> TRUE, table |-> t] : n \in SheetNamePool, t \in SheetTables}
    \cup {[name |-> n, readable |-> FALSE, table |-> StoredTable(<<>>, <<>>)] :
            n \in SheetNamePool}

Workbooks ==
    {w \in UNION {[1..n -> Sheets] : n \in 0..MaxSheets} :
        \A a, b \in DOMAIN w : a # b => w[a].name # w[b].name}

NoTable == StoredTable(<<>>, <<>>)

Files ==
    {[kind |-> "none", sheets |-> <<>>, table |-> NoTable]}
    \cup {[kind |-> "xlsx", sheets |-> w, table |-> NoTable] : w \in Workbooks}
    \cup {[kind |-> "csv", sheets |-> <<>>, table |-> t] : t \in CsvTables}

-----------------------------------------------------------------------------
(* pandas operations the loader uses                                       *)

\* Series.astype(str) on one cell
astype_str(c) ==
    CASE c.k = "str" -> c.v
      [] c.k = "nan" -> S_nan
      [] c.k = "nat" -> S_NaT
      [] OTHER -> c.v

\* df.columns.str.strip().str.lower()
CleanColumns(cols) == [j \in DOMAIN cols |-> lower(strip(cols[j]))]

\* the positions of a label in df.columns
Positions(cols, label) == {j \in DOMAIN cols : cols[j] = label}

\* fault variant of CleanValue: lowercases without trimming
CleanValueNoStrip(c) == Str(lower(astype_str(c)))

\* .astype(str).str.strip().str.lower() on one cell
CleanValue(c) == Str(lower(strip(astype_str(c))))

\* df[col] = df[col].astype(str).str.strip().str.lower()
CleanRecordType(d, j) ==
    [d EXCEPT !.rows = [k \in DOMAIN d.rows |->
        [d.rows[k] EXCEPT !.cells[j] = CleanValue(d.rows[k].cells[j])]]]

\* df['record_type'] == 'impact_link'
ImpactLinksMask(d, j) == [k \in DOMAIN d.rows |-> d.rows[k].cells[j] = Str(S_impact_link)]

\* ~mask
Invert(mask) == [k \in DOMAIN mask |-> ~mask[k]]

\* df[mask]: the rows whose mask entry is True, in order, index labels kept
RECURSIVE BooleanSelect(_, _)
BooleanSelect(rows, mask) ==
    IF rows = <<>> THEN <<>>
    ELSE LET rest == BooleanSelect(Tail(rows), Tail(mask))
         IN  IF Head(mask) THEN <<Head(rows)>> \o rest ELSE rest

\* fault variant of reset_index: keeps the old index labels
keep_index(rows) == rows

\* reset_index(drop=True)
reset_index(rows) == [k \in DOMAIN rows |-> [rows[k] EXCEPT !.index = k - 1]]

\* fault variant of MainData: leaves every row in the main data
MainDataAll(d, mask) == [d EXCEPT !.rows = reset_index(d.rows)]

\* main_data = df[~impact_links_mask].copy(); main_data.reset_index(drop=True)
MainData(d, mask) == [d EXCEPT !.rows = reset_index(BooleanSelect(d.rows, Invert(mask)))]

\* impact_links = df[impact_links_mask].copy(); impact_links.reset_index(drop=True)
ImpactLinks(d, mask) == [d EXCEPT !.rows = reset_index(BooleanSelect(d.rows, mask))]

\* fault variant of Split: treats a missing record_type column as fatal
SplitStrict(d) ==
    LET P == Positions(d.columns, S_record_type)
    IN  IF Cardinality(P) # 1
        THEN [exc |-> IF P = {} THEN "ValueError" ELSE "AttributeError", df |-> d, ret |-> <<>>]
        ELSE LET j == CHOOSE x \in P : TRUE
                 c == CleanRecordType(d, j)
                 mask == ImpactLinksMask(c, j)
             IN  [exc |-> "", df |-> c, ret |-> <<MainData(c, mask), ImpactLinks(c, mask)>>]

\* lines 216-249: the outcome of the split on the cleaned table d.
\* Two columns labelled record_type make df['record_type'] a DataFrame, which has
\* no .str accessor: AttributeError.
Split(d) ==
    LET P == Positions(d.columns, S_record_type)
    IN  IF P = {}
        THEN [exc |-> "", df |-> d, ret |-> <<d, EmptyDataFrame>>]
        ELSE IF Cardinality(P) > 1
        THEN [exc |-> "AttributeError", df |-> d, ret |-> <<>>]
        ELSE LET j == CHOOSE x \in P : TRUE
                 c == CleanRecordType(d, j)
                 mask == ImpactLinksMask(c, j)
             IN  [exc |-> "", df |-> c, ret |-> <<MainData(c, mask), ImpactLinks(c, mask)>>]

-----------------------------------------------------------------------------
(* Worksheet resolution                                                    *)

\* possible_sheet_names of each loader
possible_sheet_names(r) ==
    IF r = "unified_data"
    THEN <<"data", "Sheet1", "unified_data", "ethiopia_fi", "main", "observations">>
    ELSE <<"reference_codes", "codes", "Sheet1", "ref">>

SheetNamed(f, name) == f.sheets[CHOOSE k \in DOMAIN f.sheets : f.sheets[k].name = name]

\* fault variant of FirstPossibleSheet: walks the file's sheets and takes the
\* first one with a known name
RECURSIVE FirstKnownSheet(_, _)
FirstKnownSheet(possible, names) ==
    IF names = <<>> THEN None
    ELSE IF Head(names) \in Range(possible) THEN <<Head(names)>>
    ELSE FirstKnownSheet(possible, Tail(names))

\* for sheet_name in possible_sheet_names: if sheet_name in sheet_names: ... break
RECURSIVE FirstPossibleSheet(_, _)
FirstPossibleSheet(possible, names) ==
    IF possible = <<>> THEN None
    ELSE IF Head(possible) \in Range(names) THEN <<Head(possible)>>
    ELSE FirstPossibleSheet(Tail(possible), names)

\* 'record_type' in temp_df.columns or 'indicator' in temp_df.columns
LooksLikeData(temp_df) ==
    S_record_type \in Range(temp_df.columns) \/ S_indicator \in Range(temp_df.columns)

\* fault variant of FirstSheetName: takes the last sheet
LastSheet(names) == names[Len(names)]

\* sheet_names[0]
FirstSheetName(names) == names[1]

\* one pd.read_excel call: the sheet and the nrows argument (None: all rows)
Read(name, nrows) == [sheet |-> name, nrows |-> nrows]

\* fault variant of ProbeRead: the probe reads the whole sheet
ProbeReadAll(name) == Read(name, None)

\* temp_df = pd.read_excel(path, sheet_name=sheet_name, nrows=10)
ProbeRead(name) == Read(name, <<ProbeRows>>)

\* sheets_dict = {}
EmptyDict == <<>>

\* fault variant of LogError: the error is not logged
LogNothing(l, msg) == l

\* logger.error(msg)
LogError(l, msg) == Append(l, [level |-> "ERROR", msg |-> msg])

\* logger.warning(msg)
LogWarning(l, msg) == Append(l, [level |-> "WARNING", msg |-> msg])

\* excel_file = pd.ExcelFile(path): the handle stays open until excel_file.close()
\* or until the object is finalised
ExcelFile(h) == h \cup {"excel_file"}

\* The loaders never call excel_file.close() and use no with block.  When the
\* function returns, its frame goes away and the interpreter may or may not have
\* finalised excel_file by then; when it raises, the traceback keeps the frame, and
\* with it excel_file, alive.
AtReturn(h) == {h, {}}

-----------------------------------------------------------------------------
(* load_unified_data / load_reference_codes / load_additional_data_guide   *)

\* the loaders that resolve one worksheet
Roles == {"unified_data", "reference_codes"}

\* the keys of self.data_files
Operations == Roles \cup {"additional_data"}

InitLoader ==
    /\ role \in Operations
    /\ file \in Files
    /\ pc = "start"
    /\ sheet_names = <<>>
    /\ df = None
    /\ sheet_used = None
    /\ probe_i = 0
    /\ reads = <<>>
    /\ exc = ""
    /\ ret = <<>>
    /\ sheets_dict = EmptyDict
    /\ log = <<>>
    /\ open_handles = {}

IdleValidator ==
    /\ vdf = EmptyDataFrame
    /\ vdf0 = EmptyDataFrame
    /\ vpc = "idle"
    /\ validation_results = None

IdleNormalizer ==
    /\ labels = <<>>
    /\ normalized = <<>>

\* the processed directory as __init__ leaves it when it creates it
IdleSaver ==
    /\ disk = <<>>
    /\ saves = <<>>

\* the dashboard is not running
IdleDashboard ==
    /\ artifacts = <<>>
    /\ data = <<>>
    /\ data_loaded = FALSE
    /\ dpc = "idle"
    /\ screen = <<>>

Init == InitLoader /\ IdleValidator /\ IdleNormalizer /\ IdleSaver /\ IdleDashboard

\* lines 123-148, 183-186 (268-291, 304-305; 339-358, 368-369): find the file, open
\* it, list its sheets.  download_data logs an error for a file it does not find;
\* pd.read_csv opens and closes the file within the call.
OpenFile ==
    /\ pc = "start"
    /\ \/ /\ file.kind = "none"
          /\ log' = LogError(log, "No data file found")
          /\ exc' = "FileNotFoundError"
          /\ pc' = "except"
          /\ UNCHANGED <<sheet_names, df, probe_i, open_handles>>
       \/ /\ file.kind = "xlsx"
          /\ open_handles' = ExcelFile(open_handles)
          /\ sheet_names' = [k \in DOMAIN file.sheets |-> file.sheets[k].name]
          /\ pc' = IF role = "additional_data" THEN "sheets" ELSE "known"
          /\ probe_i' = IF role = "additional_data" THEN 1 ELSE probe_i
          /\ UNCHANGED <<exc, df, log>>
       \/ /\ file.kind = "csv"
          /\ role \in Roles
          /\ df' = <<ReadAll(file.table)>>
          /\ pc' = "loaded"
          /\ UNCHANGED <<exc, sheet_names, probe_i, log, open_handles>>
       \/ /\ file.kind = "csv"
          /\ role = "additional_data"
          /\ exc' = "ValueError"
          /\ pc' = "except"
          /\ UNCHANGED <<sheet_names, df, probe_i, log, open_handles>>
    /\ UNCHANGED <<role, file, sheet_used, reads, ret, sheets_dict>>
    /\ UNCHANGED <<validatorVars, normVars, saveVars, dashVars>>

\* lines 150-161 (289-297): step 1, the first known name that is a sheet of the file
KnownSheet ==
    /\ pc = "known"
    /\ LET hit == FirstPossibleSheet(possible_sheet_names(role), sheet_names)
       IN  \/ /\ hit = None
              /\ pc' = IF role = "unified_data" THEN "probe" ELSE "first"
              /\ probe_i' = 1
              /\ UNCHANGED <<df, sheet_used, reads, exc>>
           \/ /\ hit # None
              /\ SheetNamed(file, hit[1]).readable
              /\ df' = <<ReadAll(SheetNamed(file, hit[1]).table)>>
              /\ sheet_used' = hit
              /\ reads' = Append(reads, Read(hit[1], None))
              /\ pc' = "loaded"
              /\ UNCHANGED <<probe_i, exc>>
           \/ /\ hit # None
              /\ ~SheetNamed(file, hit[1]).readable
              /\ reads' = Append(reads, Read(hit[1], None))
              /\ exc' = "ReadError"
              /\ pc' = "except"
              /\ UNCHANGED <<df, sheet_used, probe_i>>
    /\ UNCHANGED <<role, file, sheet_names, ret>>
    /\ UNCHANGED <<sheets_dict, log, open_handles>>
    /\ UNCHANGED <<validatorVars, normVars, saveVars, dashVars>>

\* lines 163-175: step 2, one iteration of the loop over sheet_names (unified data only)
ProbeSheet ==
    /\ pc = "probe"
    /\ \/ /\ probe_i <= Len(sheet_names)
          /\ LET name == sheet_names[probe_i]
                 sheet == SheetNamed(file, name)
             IN  \/ /\ ~sheet.readable          \* except: continue
                    /\ reads' = Append(reads, ProbeRead(name))
                    /\ probe_i' = probe_i + 1
                    /\ UNCHANGED <<df, sheet_used, pc>>
                 \/ /\ sheet.readable
                    /\ ~LooksLikeData(ReadHead(sheet.table, ProbeRows))
                    /\ reads' = Append(reads, ProbeRead(name))
                    /\ probe_i' = probe_i + 1
                    /\ UNCHANGED <<df, sheet_used, pc>>
                 \/ /\ sheet.readable
                    /\ LooksLikeData(ReadHead(sheet.table, ProbeRows))
                    /\ reads' = reads \o <<ProbeRead(name), Read(name, None)>>
                    /\ df' = <<ReadAll(sheet.table)>>
                    /\ sheet_used' = <<name>>
                    /\ pc' = "loaded"
                    /\ UNCHANGED probe_i
       \/ /\ probe_i > Len(sheet_names)
          /\ pc' = "first"
          /\ UNCHANGED <<df, sheet_used, reads, probe_i>>
    /\ UNCHANGED <<role, file, sheet_names, exc, ret>>
    /\ UNCHANGED <<sheets_dict, log, open_handles>>
    /\ UNCHANGED <<validatorVars, normVars, saveVars, dashVars>>

\* lines 177-181 (299-302): step 3, the first sheet of the file
FirstSheet ==
    /\ pc = "first"
    /\ \/ /\ sheet_names = <<>>
          /\ pc' = "loaded"
          /\ UNCHANGED <<df, sheet_used, reads, exc>>
       \/ /\ sheet_names # <<>>
          /\ SheetNamed(file, FirstSheetName(sheet_names)).readable
          /\ df' = <<ReadAll(SheetNamed(file, FirstSheetName(sheet_names)).table)>>
          /\ sheet_used' = <<FirstSheetName(sheet_names)>>
          /\ reads' = Append(reads, Read(FirstSheetName(sheet_names), None))
          /\ pc' = "loaded"
          /\ UNCHANGED exc
       \/ /\ sheet_names # <<>>
          /\ ~SheetNamed(file, FirstSheetName(sheet_names)).readable
          /\ reads' = Append(reads, Read(FirstSheetName(sheet_names), None))
          /\ exc' = "ReadError"
          /\ pc' = "except"
          /\ UNCHANGED <<df, sheet_used>>
    /\ UNCHANGED <<role, file, sheet_names, probe_i, ret>>
    /\ UNCHANGED <<sheets_dict, log, open_handles>>
    /\ UNCHANGED <<validatorVars, normVars, saveVars, dashVars>>

\* df is None or df.empty
IsNoneOrEmpty(d) == IF d = None THEN TRUE ELSE empty(d[1])

\* lines 190-191 (309-310): if df is None or df.empty: raise ValueError
CheckEmpty ==
    /\ pc = "loaded"
    /\ \/ /\ IsNoneOrEmpty(df)
          /\ exc' = "ValueError"
          /\ pc' = "except"
       \/ /\ ~IsNoneOrEmpty(df)
          /\ pc' = "clean"
          /\ UNCHANGED exc
    /\ UNCHANGED <<role, file, sheet_names, df, sheet_used, probe_i, reads, ret>>
    /\ UNCHANGED <<sheets_dict, log, open_handles>>
    /\ UNCHANGED <<validatorVars, normVars, saveVars, dashVars>>

\* lines 196-198 (315-316): clean column names
CleanColumnNames ==
    /\ pc = "clean"
    /\ df' = <<[df[1] EXCEPT !.columns = CleanColumns(df[1].columns)]>>
    /\ pc' = IF role = "unified_data" THEN "split" ELSE "return"
    /\ UNCHANGED <<role, file, sheet_names, sheet_used, probe_i, reads, exc, ret>>
    /\ UNCHANGED <<sheets_dict, log, open_handles>>
    /\ UNCHANGED <<validatorVars, normVars, saveVars, dashVars>>

\* lines 200-249: check the required column, split, return (main_data, impact_links)
SplitRecords ==
    /\ pc = "split"
    /\ log' = IF S_record_type \in Range(df[1].columns) THEN log
              ELSE LogWarning(log, "Missing expected columns")
    /\ LET out == Split(df[1])
       IN  /\ df' = <<out.df>>
           /\ \/ /\ out.exc = ""
                 /\ ret' = out.ret
                 /\ pc' = "done"
                 /\ open_handles' \in AtReturn(open_handles)
                 /\ UNCHANGED exc
              \/ /\ out.exc # ""
                 /\ exc' = out.exc
                 /\ pc' = "except"
                 /\ UNCHANGED <<ret, open_handles>>
    /\ UNCHANGED <<role, file, sheet_names, sheet_used, probe_i, reads, sheets_dict>>
    /\ UNCHANGED <<validatorVars, normVars, saveVars, dashVars>>

\* lines 318-322: return ref_codes
ReturnRefCodes ==
    /\ pc = "return"
    /\ ret' = <<df[1]>>
    /\ pc' = "done"
    /\ open_handles' \in AtReturn(open_handles)
    /\ UNCHANGED <<role, file, sheet_names, df, sheet_used, probe_i, reads, exc>>
    /\ UNCHANGED <<sheets_dict, log>>
    /\ UNCHANGED <<validatorVars, normVars, saveVars, dashVars>>

\* lines 251-257 (324-326): except Exception as e: log, raise
Reraise ==
    /\ pc = "except"
    /\ role \in Roles
    /\ log' = LogError(log, "Error loading")
    /\ pc' = "raised"
    /\ UNCHANGED <<role, file, sheet_names, df, sheet_used, probe_i, reads, exc, ret>>
    /\ UNCHANGED <<sheets_dict, open_handles>>
    /\ UNCHANGED <<validatorVars, normVars, saveVars, dashVars>>

\* lines 361-366: one iteration of the loop that loads every sheet, and the return
\* after the last one
LoadGuideSheet ==
    /\ pc = "sheets"
    /\ \/ /\ probe_i <= Len(sheet_names)
          /\ LET name == sheet_names[probe_i]
                 sheet == SheetNamed(file, name)
             IN  /\ reads' = Append(reads, Read(name, None))
                 /\ \/ /\ sheet.readable
                       /\ sheets_dict' = (name :> ReadAll(sheet.table)) @@ sheets_dict
                       /\ probe_i' = probe_i + 1
                       /\ UNCHANGED <<pc, exc>>
                    \/ /\ ~sheet.readable
                       /\ exc' = "ReadError"
                       /\ pc' = "except"
                       /\ UNCHANGED <<sheets_dict, probe_i>>
          /\ UNCHANGED <<ret, open_handles>>
       \/ /\ probe_i > Len(sheet_names)
          /\ ret' = <<sheets_dict>>
          /\ pc' = "done"
          /\ open_handles' \in AtReturn(open_handles)
          /\ UNCHANGED <<sheets_dict, probe_i, reads, exc>>
    /\ UNCHANGED <<role, file, sheet_names, df, sheet_used, log>>
    /\ UNCHANGED <<validatorVars, normVars, saveVars, dashVars>>

\* lines 371-373: except Exception as e: log, return {}
ReturnEmptyDict ==
    /\ pc = "except"
    /\ role = "additional_data"
    /\ log' = LogError(log, "Error loading")
    /\ ret' = <<EmptyDict>>
    /\ pc' = "done"
    /\ open_handles' \in AtReturn(open_handles)
    /\ UNCHANGED <<role, file, sheet_names, df, sheet_used, probe_i, reads, exc>>
    /\ UNCHANGED sheets_dict
    /\ UNCHANGED <<validatorVars, normVars, saveVars, dashVars>>

\* after the operation is over the interpreter finalises the ExcelFile object at
\* some point, which releases the handle
Finalize ==
    /\ pc \in {"done", "raised"}
    /\ open_handles # {}
    /\ open_handles' = {}
    /\ UNCHANGED <<role, file, pc, sheet_names, df, sheet_used, probe_i, reads, exc, ret>>
    /\ UNCHANGED <<sheets_dict, log>>
    /\ UNCHANGED <<validatorVars, normVars, saveVars, dashVars>>

Next ==
    \/ OpenFile
    \/ KnownSheet
    \/ ProbeSheet
    \/ FirstSheet
    \/ CheckEmpty
    \/ CleanColumnNames
    \/ SplitRecords
    \/ ReturnRefCodes
    \/ Reraise
    \/ LoadGuideSheet
    \/ ReturnEmptyDict
    \/ Finalize

Spec == Init /\ [][Next]_vars

\* the values load_unified_data returns
main_data == ret[1]
impact_links == ret[2]

-----------------------------------------------------------------------------
(* Properties of the record partition                                      *)

\* the stored table the loader read into df
LoadedSource ==
    IF file.kind = "csv" THEN file.table ELSE SheetNamed(file, sheet_used[1]).table

Returned == pc = "done" /\ role = "unified_data"

HasRecordType == S_record_type \in Range(df[1].columns)

\* how many rows of table t come from source row s
Occurrences(t, s) == Cardinality({k \in DOMAIN t.rows : t.rows[k].src = s})

SourceRows == 0..(Len(LoadedSource.data) - 1)

\* C1: when load_unified_data returns for a table with a record_type column, every
\* source row is in exactly one of main_data and impact_links, and the two row
\* counts sum to the row count of the loaded table.
C1_PartitionDisjointAndTotal ==
    (Returned /\ HasRecordType) =>
        /\ \A s \in SourceRows : Occurrences(main_data, s) + Occurrences(impact_links, s) = 1
        /\ Len(main_data.rows) + Len(impact_links.rows) = Len(LoadedSource.data)
        /\ Len(df[1].rows) = Len(LoadedSource.data)

C1_Witness ==
    /\ Returned /\ HasRecordType
    /\ Len(main_data.rows) >= 2
    /\ Len(impact_links.rows) >= 1

\* C2: a loaded non-empty table without a record_type column (after column-name
\* normalisation) never makes load_unified_data fail; it returns the whole table
\* (rows, order and index as read, column names normalised) as main_data and an
\* impact_links table with zero rows.
C2_NoRecordTypeAllMain ==
    (/\ role = "unified_data"
     /\ pc \in {"split", "done", "except", "raised"}
     /\ ~IsNoneOrEmpty(df)
     /\ ~HasRecordType)
    => /\ pc \in {"split", "done"}
       /\ pc = "done" =>
            /\ main_data.rows = IndexedRows(LoadedSource.data)
            /\ Len(main_data.columns) = Len(LoadedSource.columns)
            /\ \A j \in DOMAIN main_data.columns :
                 main_data.columns[j] = lower(strip(LoadedSource.columns[j]))
            /\ Len(impact_links.rows) = 0

C2_Witness ==
    /\ Returned
    /\ ~HasRecordType
    /\ Len(main_data.rows) >= 2
    /\ main_data.rows[1].cells # main_data.rows[2].cells

\* the record_type value of source row s as stored, given the column's position j
StoredValue(s, j) == LoadedSource.data[s + 1][j]

NormalizesToImpactLink(c) == c.k = "str" /\ lower(strip(c.v)) = S_impact_link

InImpactLinks(s) == \E k \in DOMAIN impact_links.rows : impact_links.rows[k].src = s
InMainData(s) == \E k \in DOMAIN main_data.rows : main_data.rows[k].src = s

\* C3: a source row is in impact_links exactly when its record_type value, trimmed
\* and lowercased, is "impact_link"; every other row (a value that does not
\* normalise to it, a missing value, a table without the column) is in main_data.
C3_ImpactLinkIffNormalizedValue ==
    Returned =>
        \A s \in SourceRows :
            LET isLink == /\ HasRecordType
                          /\ NormalizesToImpactLink(
                                StoredValue(s, CHOOSE j \in DOMAIN df[1].columns :
                                                   df[1].columns[j] = S_record_type))
            IN  /\ InImpactLinks(s) <=> isLink
                /\ InMainData(s) <=> ~isLink

C3_Witness ==
    /\ Returned /\ HasRecordType
    /\ LoadedSource.columns = <<S_record_type>>
    /\ LoadedSource.data = << <<Str(S_Impact_Link_padded)>>, <<Str(S_IMPACT_LINKS)>>, <<NaN>> >>
    /\ InImpactLinks(0) /\ InMainData(1) /\ InMainData(2)

Stable(t) ==
    /\ \A k \in DOMAIN t.rows : t.rows[k].index = k - 1
    /\ \A a, b \in DOMAIN t.rows : a < b => t.rows[a].src < t.rows[b].src

\* C4: in main_data and in impact_links the rows keep the relative order of the
\* source table and the index is 0, 1, ..., n-1.
C4_StableAndRenumbered ==
    Returned => Stable(main_data) /\ Stable(impact_links)

\* the example: [observation, impact_link, observation, impact_link, observation]
C4_Witness ==
    /\ Returned
    /\ file.kind = "csv" /\ file.table = ExampleTable
    /\ [k \in DOMAIN main_data.rows |-> main_data.rows[k].src] = <<0, 2, 4>>
    /\ [k \in DOMAIN main_data.rows |-> main_data.rows[k].index] = <<0, 1, 2>>
    /\ [k \in DOMAIN impact_links.rows |-> impact_links.rows[k].src] = <<1, 3>>
    /\ [k \in DOMAIN impact_links.rows |-> impact_links.rows[k].index] = <<0, 1>>

-----------------------------------------------------------------------------
(* Properties of the worksheet resolution                                  *)

FileSheetNames == {file.sheets[k].name : k \in DOMAIN file.sheets}

\* the positions of the role's priority list whose name is a sheet of the file
KnownPositions ==
    {k \in DOMAIN possible_sheet_names(role) : possible_sheet_names(role)[k] \in FileSheetNames}

\* the present name that comes earliest in the priority list
EarliestKnown ==
    possible_sheet_names(role)[CHOOSE k \in KnownPositions : \A m \in KnownPositions : k <= m]

\* the resolution is over: a sheet was read in full, or the read raised
Resolved ==
    role \in Roles /\ file.kind = "xlsx" /\ pc \notin {"start", "known", "probe", "first"}

HasMarker(sheet) ==
    sheet.readable /\ \E j \in DOMAIN sheet.table.columns :
                          sheet.table.columns[j] \in {S_record_type, S_indicator}

\* C5: when a sheet of the file bears a name of the role's priority list, the only
\* sheet the resolver reads is the one whose name is earliest in the priority list,
\* and that sheet is the one it loads (sheet_used) whenever the read succeeds.
C5_EarliestPriorityNameSelected ==
    (Resolved /\ KnownPositions # {}) =>
        /\ reads = <<Read(EarliestKnown, None)>>
        /\ SheetNamed(file, EarliestKnown).readable =>
              /\ sheet_used = <<EarliestKnown>>
              /\ df # None
              /\ df[1].rows = IndexedRows(SheetNamed(file, EarliestKnown).table.data)

\* the example: sheets ["Sheet1", "data"], Sheet1 holding the marker column
C5_Witness ==
    /\ Resolved /\ role = "unified_data" /\ pc = "done"
    /\ sheet_names = <<"Sheet1", "data">>
    /\ HasMarker(file.sheets[1])
    /\ sheet_used = <<"data">>

\* C6: for a file with at least one sheet, no sheet named in the priority list and
\* no sheet whose sample holds a marker column, the resolver's full read is of the
\* first sheet of the file, which is the one it loads whenever the read succeeds.
C6_FallbackIsFirstSheet ==
    (/\ Resolved
     /\ file.sheets # <<>>
     /\ KnownPositions = {}
     /\ \A k \in DOMAIN file.sheets : ~HasMarker(file.sheets[k]))
    => /\ reads # <<>>
       /\ reads[Len(reads)] = Read(file.sheets[1].name, None)
       /\ \A k \in 1..(Len(reads) - 1) : reads[k].nrows # None
       /\ file.sheets[1].readable => sheet_used = <<file.sheets[1].name>>

C6_Witness ==
    /\ Resolved /\ role = "unified_data" /\ pc = "done"
    /\ KnownPositions = {}
    /\ Len(file.sheets) >= 2
    /\ \A k \in DOMAIN file.sheets : ~HasMarker(file.sheets[k])
    /\ sheet_used = <<file.sheets[1].name>>

C6_WitnessReferenceCodes ==
    /\ Resolved /\ role = "reference_codes" /\ pc = "done"
    /\ KnownPositions = {}
    /\ Len(file.sheets) >= 2
    /\ sheet_used = <<file.sheets[1].name>>

\* C7 (as claimed): for a file with at least one sheet the resolution ends with a
\* selected worksheet and never with an error, whatever the sheets' readability.
C7_ResolverNeverRaises ==
    (Resolved /\ file.sheets # <<>>) => (sheet_used # None /\ exc # "ReadError")

\* the positions of the sheets whose sample holds a marker column
MarkerPositions == {k \in DOMAIN file.sheets : HasMarker(file.sheets[k])}

FirstMarker == CHOOSE k \in MarkerPositions : \A m \in MarkerPositions : k <= m

\* C15: in a load of the unified data from a workbook none of whose sheets bears a
\* priority name, the reads made so far are always samples of ProbeRows rows of
\* the sheets in file order, one per sheet, closed by at most one full read; when
\* some sheet's sample holds a marker column, the resolution ends with the samples
\* of the sheets up to the first such sheet, unreadable ones included, followed by
\* the full read of that sheet, which is the sheet loaded: no later sheet is read.
C15_ProbeInFileOrderUntilFirstMarker ==
    (role = "unified_data" /\ file.kind = "xlsx" /\ KnownPositions = {}) =>
        /\ \A k \in DOMAIN reads :
              \/ k <= Len(file.sheets) /\ reads[k] = Read(file.sheets[k].name, <<ProbeRows>>)
              \/ k = Len(reads) /\ reads[k].nrows = None
        /\ (Resolved /\ MarkerPositions # {}) =>
              /\ Len(reads) = FirstMarker + 1
              /\ \A k \in 1..FirstMarker :
                    reads[k] = Read(file.sheets[k].name, <<ProbeRows>>)
              /\ reads[FirstMarker + 1] = Read(file.sheets[FirstMarker].name, None)
              /\ sheet_used = <<file.sheets[FirstMarker].name>>

\* an unreadable first sheet is skipped and the second, which holds the marker, is
\* selected
C15_Witness ==
    /\ role = "unified_data" /\ Resolved /\ pc = "done"
    /\ KnownPositions = {}
    /\ Len(file.sheets) = 2
    /\ ~file.sheets[1].readable
    /\ HasMarker(file.sheets[2])
    /\ Len(reads) = 3
    /\ sheet_used = <<file.sheets[2].name>>

\* C16 (as claimed): in a load of the reference codes from a workbook none of whose
\* sheets bears a priority name and all of whose sheets can be read, when some
\* sheet's sample holds a marker column the sheet selected is the first such sheet
\* in file order.
C16_ReferenceCodesProbeMarker ==
    (/\ role = "reference_codes"
     /\ Resolved
     /\ KnownPositions = {}
     /\ \A k \in DOMAIN file.sheets : file.sheets[k].readable
     /\ MarkerPositions # {})
    => sheet_used = <<file.sheets[FirstMarker].name>>

\* the sheet's sample holds a column whose normalised name is a marker
HasNormalizedMarker(sheet) ==
    sheet.readable /\ \E j \in DOMAIN sheet.table.columns :
                          lower(strip(sheet.table.columns[j])) \in {S_record_type, S_indicator}

NormalizedMarkerPositions == {k \in DOMAIN file.sheets : HasNormalizedMarker(file.sheets[k])}

\* C17 (as claimed): the marker probe matches normalised column names: in a load of
\* the unified data from a workbook none of whose sheets bears a priority name, the
\* sheet selected is the first one in file order with a column whose name trims and
\* lowercases to a marker, so that " Record_Type " counts as "record_type".
C17_ProbeMatchesNormalizedNames ==
    (/\ role = "unified_data"
     /\ Resolved
     /\ KnownPositions = {}
     /\ NormalizedMarkerPositions # {})
    => \E k \in NormalizedMarkerPositions :
          /\ \A m \in NormalizedMarkerPositions : k <= m
          /\ sheet_used = <<file.sheets[k].name>>

-----------------------------------------------------------------------------
(* Properties of the loaders' error handling and file handles              *)

\* the operation is over: it returned or it raised
Exited == pc \in {"done", "raised"}

\* the input file is absent, or it is a workbook with no worksheet
MissingInput == file.kind = "none" \/ (file.kind = "xlsx" /\ file.sheets = <<>>)

\* the table load_unified_data loaded has no record_type column
MissingRecordType ==
    /\ role = "unified_data"
    /\ pc \in {"done", "except", "raised"}
    /\ ~IsNoneOrEmpty(df)
    /\ S_record_type \notin Range(CleanColumns(df[1].columns))

ErrorLogged == \E k \in DOMAIN log : log[k].level = "ERROR"

WarningLogged == \E k \in DOMAIN log : log[k].level = "WARNING"

\* C12 (as claimed): each of the three loader operations that meets a missing input
\* or a missing record_type column logs an error and ends by raising, never by
\* returning.
C12_MissingInputOrColumnReraised ==
    (Exited /\ (MissingInput \/ MissingRecordType)) =>
        (pc = "raised" /\ ErrorLogged /\ ret = <<>>)

\* C12 (amended): load_unified_data and load_reference_codes log an error and
\* re-raise when the input file is absent or the workbook has no worksheet, and
\* return nothing; load_additional_data_guide logs the error of an absent file and
\* returns an empty dictionary instead of raising; a missing record_type column is
\* logged as a warning and load_unified_data returns normally.
C12_LoadersReraiseGuideReturnsEmpty ==
    /\ (Exited /\ role \in Roles /\ MissingInput) =>
          /\ pc = "raised"
          /\ exc = (IF file.kind = "none" THEN "FileNotFoundError" ELSE "ValueError")
          /\ log # <<>> /\ log[Len(log)].level = "ERROR"
          /\ ret = <<>>
    /\ (Exited /\ role = "additional_data" /\ file.kind = "none") =>
          /\ pc = "done"
          /\ ret = <<EmptyDict>>
          /\ log # <<>> /\ log[Len(log)].level = "ERROR"
    /\ (Exited /\ MissingRecordType) =>
          /\ pc = "done"
          /\ WarningLogged /\ ~ErrorLogged
          /\ Len(ret) = 2

\* the guide file is absent and the operation has returned the empty dictionary
C12_Witness ==
    /\ role = "additional_data"
    /\ file.kind = "none"
    /\ pc = "done"
    /\ ret = <<EmptyDict>>
    /\ ErrorLogged

\* the unified data file is absent and the operation has raised
C12_WitnessReraised ==
    /\ role = "unified_data"
    /\ file.kind = "none"
    /\ pc = "raised"
    /\ exc = "FileNotFoundError"
    /\ ErrorLogged

\* C19 (as claimed): when a loader operation returns or raises, no file handle it
\* opened is still open.
C19_HandlesClosedOnExit ==
    Exited => open_handles = {}

-----------------------------------------------------------------------------
(* Column normalisation on its own                                         *)

NamePool ==
    {<<>>, S_blank, S_record_type, S_Record_Type_padded, S_RECORD_TYPE, S_Pillar_padded,
     S_Obs_Date, S_First_Name}

NameLists == UNION {[1..n -> NamePool] : n \in 0..MaxNames}

IdleLoader ==
    /\ role = "unified_data"
    /\ file = [kind |-> "none", sheets |-> <<>>, table |-> NoTable]
    /\ pc = "idle"
    /\ sheet_names = <<>>
    /\ df = None
    /\ sheet_used = None
    /\ probe_i = 0
    /\ reads = <<>>
    /\ exc = ""
    /\ ret = <<>>
    /\ sheets_dict = EmptyDict
    /\ log = <<>>
    /\ open_handles = {}

InitNormalize ==
    /\ IdleLoader /\ IdleValidator /\ IdleSaver /\ IdleDashboard
    /\ labels \in NameLists
    /\ normalized = <<>>

\* lines 196-198 (315-316): df.columns = df.columns.str.strip().str.lower(),
\* applied to the labels given and then again to its own result
NormalizeColumns ==
    /\ Len(normalized) < 2
    /\ normalized' = Append(normalized,
                            CleanColumns(IF normalized = <<>> THEN labels
                                         ELSE normalized[Len(normalized)]))
    /\ UNCHANGED labels
    /\ UNCHANGED <<loaderVars, validatorVars, saveVars, dashVars>>

NextNormalize == NormalizeColumns

SpecNormalize == InitNormalize /\ [][NextNormalize]_vars

\* C8: normalising the column labels twice gives the same labels as normalising
\* them once.
C8_NormalizationIdempotent ==
    Len(normalized) = 2 => normalized[2] = normalized[1]

C8_Witness ==
    /\ Len(normalized) = 2
    /\ labels = <<S_Pillar_padded, S_Record_Type_padded>>
    /\ normalized[1] = <<S_pillar, S_record_type>>
    /\ normalized[2] = normalized[1]

-----------------------------------------------------------------------------
(* validate_data_structure                                                 *)

\* pd.Timestamp of a calendar day
Day(y, m, d) == [k |-> "ts", v |-> <<y, m, d>>]

Digits == <<"0","1","2","3","4","5","6","7","8","9">>
IsDigit(c) == \E n \in DOMAIN Digits : Digits[n] = c
DigitValue(c) == (CHOOSE n \in DOMAIN Digits : Digits[n] = c) - 1

RECURSIVE Number(_)
Number(s) == IF s = <<>> THEN 0 ELSE 10 * Number(SubSeq(s, 1, Len(s) - 1)) + DigitValue(s[Len(s)])

IsLeap(y) == (y % 4 = 0 /\ y % 100 # 0) \/ y % 400 = 0
DaysInMonth(y, m) ==
    IF m = 2 THEN (IF IsLeap(y) THEN 29 ELSE 28)
    ELSE IF m \in {4, 6, 9, 11} THEN 30 ELSE 31

\* pd.to_datetime(..., errors='coerce') on one text cell.  The explored cells hold
\* ISO dates (YYYY-MM-DD) or text that is no date at all; what cannot be parsed is NaT.
ParseDate(s) ==
    IF /\ Len(s) = 10
       /\ s[5] = "-" /\ s[8] = "-"
       /\ \A n \in {1, 2, 3, 4, 6, 7, 9, 10} : IsDigit(s[n])
    THEN LET y == Number(SubSeq(s, 1, 4))
             m == Number(SubSeq(s, 6, 7))
             d == Number(SubSeq(s, 9, 10))
         IN  IF y >= 1 /\ m \in 1..12 /\ d \in 1..DaysInMonth(y, m) THEN Day(y, m, d) ELSE NaT
    ELSE NaT

\* pd.to_datetime(..., errors='coerce') on one cell
to_datetime(c) ==
    CASE c.k = "str" -> ParseDate(c.v)
      [] c.k = "ts" -> c
      [] OTHER -> NaT

\* n as text, zero-padded to the given width
RECURSIVE Padded(_, _)
Padded(n, width) ==
    IF width = 0 THEN <<>> ELSE Append(Padded(n \div 10, width - 1), Digits[(n % 10) + 1])

\* Timestamp.strftime('%Y-%m-%d')
strftime(t) == Padded(t.v[1], 4) \o <<"-">> \o Padded(t.v[2], 2) \o <<"-">> \o Padded(t.v[3], 2)

\* the order of timestamps
Before(a, b) ==
    \/ a.v[1] < b.v[1]
    \/ a.v[1] = b.v[1] /\ a.v[2] < b.v[2]
    \/ a.v[1] = b.v[1] /\ a.v[2] = b.v[2] /\ a.v[3] <= b.v[3]

\* isnull on one cell
isnull(c) == c.k \in {"nan", "nat"}

\* the position df[label] reads and df[label] = ... writes (labels are distinct here)
ColumnOf(d, label) == CHOOSE j \in DOMAIN d.columns : d.columns[j] = label

\* the non-missing values of a column
ValuesOf(d, j) == {d.rows[k].cells[j] : k \in {x \in DOMAIN d.rows : ~isnull(d.rows[x].cells[j])}}

\* df[label].value_counts().to_dict(): missing values are not counted
value_counts(d, label) ==
    LET j == ColumnOf(d, label)
    IN  [v \in ValuesOf(d, j) |-> Cardinality({k \in DOMAIN d.rows : d.rows[k].cells[j] = v})]

\* df.isnull().sum().to_dict()
missing_values(d) ==
    [label \in Range(d.columns) |->
        Cardinality({k \in DOMAIN d.rows : isnull(d.rows[k].cells[ColumnOf(d, label)])})]

\* df[label].nunique()
nunique(d, label) == Cardinality(ValuesOf(d, ColumnOf(d, label)))

\* [col for col in df.columns if 'date' in col.lower()]
date_columns(d) == SelectSeq(d.columns, LAMBDA col : Contains(lower(col), S_date))

\* df[date_col] = pd.to_datetime(df[date_col], errors='coerce')
ConvertColumn(d, j) ==
    [d EXCEPT !.rows = [k \in DOMAIN d.rows |->
        [d.rows[k] EXCEPT !.cells[j] = to_datetime(d.rows[k].cells[j])]]]

\* fault variant of DateLoop: only the first date column is tried
DateLoopFirstOnly(d, cols) ==
    IF cols = <<>> THEN [df |-> d, date_range |-> None]
    ELSE LET j == ColumnOf(d, Head(cols))
             c == ConvertColumn(d, j)
             valid_dates == ValuesOf(c, j)
         IN  [df |-> c,
              date_range |->
                IF valid_dates = {} THEN None
                ELSE <<[min |-> strftime(CHOOSE a \in valid_dates :
                                            \A b \in valid_dates : Before(a, b)),
                        max |-> strftime(CHOOSE a \in valid_dates :
                                            \A b \in valid_dates : Before(b, a))]>>]

\* lines 420-431: the loop over date_columns; the table is converted column by
\* column until a column holds a valid date
RECURSIVE DateLoop(_, _)
DateLoop(d, cols) ==
    IF cols = <<>> THEN [df |-> d, date_range |-> None]
    ELSE LET j == ColumnOf(d, Head(cols))
             c == ConvertColumn(d, j)
             valid_dates == ValuesOf(c, j)
         IN  IF valid_dates # {}
             THEN [df |-> c,
                   date_range |->
                     <<[min |-> strftime(CHOOSE a \in valid_dates :
                                            \A b \in valid_dates : Before(a, b)),
                        max |-> strftime(CHOOSE a \in valid_dates :
                                            \A b \in valid_dates : Before(b, a))]>>]
             ELSE DateLoop(c, Tail(cols))

\* lines 389-396: the defaults
DefaultResults(d) ==
    [total_records |-> Len(d.rows),
     record_type_counts |-> <<>>,
     pillar_distribution |-> <<>>,
     missing_values |-> <<>>,
     date_range |-> None,
     unique_indicators |-> 0]

\* fault variant of SkipsValidation: no early return
NeverSkips(d) == FALSE

\* line 398: if df.empty
SkipsValidation(d) == empty(d)

\* lines 389-433: the returned dict and the caller's table after the call
Validate(d) ==
    IF SkipsValidation(d)
    THEN [df |-> d, results |-> DefaultResults(d)]
    ELSE LET dates == DateLoop(d, date_columns(d))
         IN  [df |-> dates.df,
              results |->
                [total_records |-> Len(d.rows),
                 record_type_counts |->
                    IF S_record_type \in Range(d.columns)
                    THEN value_counts(d, S_record_type) ELSE <<>>,
                 pillar_distribution |->
                    IF S_pillar \in Range(d.columns) THEN value_counts(d, S_pillar) ELSE <<>>,
                 missing_values |-> missing_values(d),
                 date_range |-> dates.date_range,
                 unique_indicators |->
                    IF S_indicator_code \in Range(d.columns)
                    THEN nunique(d, S_indicator_code) ELSE 0]]

\* the values explored in a column of a validated table, by the column's label
DateValues == {Str(S_2021_01_05), Str(S_2021_02_30), Day(2020, 12, 31), Str(S_na), NaN}
ObsDateValues == {Day(2020, 12, 31), Str(S_na), NaN}
EndDateValues == {Str(S_2021_01_05), NaN}
PlainValues == {Str(S_impact_link), Str(S_observation), NaN}
CodeValues == {Str(S_access), NaN}
ValidatedValues(label) ==
    CASE label = S_date -> DateValues
      [] label = S_Obs_Date -> ObsDateValues
      [] label = S_end_date -> EndDateValues
      [] label = S_indicator_code -> CodeValues
      [] OTHER -> PlainValues

\* the explored column labels of a validated table (distinct labels)
ValidatedColumnLists ==
    {<<>>, <<S_record_type>>, <<S_pillar, S_indicator_code>>, <<S_date>>,
     <<S_Obs_Date, S_end_date>>, <<S_record_type, S_end_date>>}

ValidatedTables ==
    {ReadAll(t) : t \in UNION {TablesOver(cols, MaxRows, ValidatedValues) :
                                  cols \in ValidatedColumnLists}}

InitValidate ==
    /\ IdleLoader /\ IdleNormalizer /\ IdleSaver /\ IdleDashboard
    /\ vdf \in ValidatedTables
    /\ vdf0 = vdf
    /\ vpc = "call"
    /\ validation_results = None

\* validate_data_structure(df), lines 375-433
ValidateDataStructure ==
    /\ vpc = "call"
    /\ vdf' = Validate(vdf).df
    /\ validation_results' = <<Validate(vdf).results>>
    /\ vpc' = "returned"
    /\ UNCHANGED vdf0
    /\ UNCHANGED <<loaderVars, normVars, saveVars, dashVars>>

NextValidate == ValidateDataStructure

SpecValidate == InitValidate /\ [][NextValidate]_vars

\* C9: on a table with zero rows, whatever its columns, validate_data_structure
\* returns total_records = 0, empty record_type_counts, pillar_distribution and
\* missing_values, date_range None and unique_indicators = 0.
C9_EmptyTableDefaults ==
    (vpc = "returned" /\ Len(vdf0.rows) = 0) =>
        /\ validation_results[1].total_records = 0
        /\ DOMAIN validation_results[1].record_type_counts = {}
        /\ DOMAIN validation_results[1].pillar_distribution = {}
        /\ DOMAIN validation_results[1].missing_values = {}
        /\ validation_results[1].date_range = None
        /\ validation_results[1].unique_indicators = 0

C9_Witness ==
    /\ vpc = "returned"
    /\ Len(vdf0.rows) = 0
    /\ vdf0.columns = <<S_record_type, S_end_date>>
    /\ validation_results # None

\* C10 (as claimed): the table passed to validate_data_structure is the same after
\* the call as before it.
C10_ValidateReadOnly ==
    vpc = "returned" => vdf = vdf0

\* the positions of the columns of the table passed in whose name contains "date"
DateNamed == {j \in DOMAIN vdf0.columns : Contains(lower(vdf0.columns[j]), S_date)}

\* the dates that the values of column j of the table passed in parse to
ParsedDates(j) ==
    {to_datetime(vdf0.rows[k].cells[j]) : k \in DOMAIN vdf0.rows} \ {NaT}

\* r is the earliest and the latest date of the non-empty set S, as text
IsRangeOf(r, S) ==
    \E a, b \in S :
        /\ \A t \in S : Before(a, t) /\ Before(t, b)
        /\ r = <<[min |-> strftime(a), max |-> strftime(b)]>>

\* C18 (as claimed): for a non-empty table, date_range comes from the first column
\* whose name contains "date" and from no other: the earliest and latest of its
\* parsed values when one parses, None when none parses or no column is date-named.
C18_OnlyFirstDateColumn ==
    (vpc = "returned" /\ ~empty(vdf0)) =>
        IF DateNamed = {} THEN validation_results[1].date_range = None
        ELSE LET j == CHOOSE x \in DateNamed : \A y \in DateNamed : x <= y
             IN  IF ParsedDates(j) = {} THEN validation_results[1].date_range = None
                 ELSE IsRangeOf(validation_results[1].date_range, ParsedDates(j))

\* the date-named columns with a value that parses
DatedColumns == {j \in DateNamed : ParsedDates(j) # {}}

\* C18 (amended): for a non-empty table, date_range comes from the first column, in
\* column order, whose name contains "date" and one of whose values parses, values
\* that do not parse being left out: it is the earliest and latest parsed value of
\* that column, and None when there is no such column; date-named columns after
\* that one do not contribute.
C18_FirstDateColumnWithValidDate ==
    (vpc = "returned" /\ ~empty(vdf0)) =>
        IF DatedColumns = {} THEN validation_results[1].date_range = None
        ELSE LET j == CHOOSE x \in DatedColumns : \A y \in DatedColumns : x <= y
             IN  IsRangeOf(validation_results[1].date_range, ParsedDates(j))

\* the first date column holds only text that does not parse; the range is that of
\* the second
C18_Witness ==
    /\ vpc = "returned"
    /\ vdf0.columns = <<S_Obs_Date, S_end_date>>
    /\ Len(vdf0.rows) = 2
    /\ \A k \in DOMAIN vdf0.rows : vdf0.rows[k].cells[1] = Str(S_na)
    /\ vdf0.rows[1].cells[2] = Str(S_2021_01_05)
    /\ validation_results[1].date_range =
          <<[min |-> S_2021_01_05, max |-> S_2021_01_05]>>

\* one column, with an unparsable value between two dates
C18_WitnessFirstColumn ==
    /\ vpc = "returned"
    /\ vdf0.columns = <<S_date>>
    /\ [k \in DOMAIN vdf0.rows |-> vdf0.rows[k].cells[1]] =
          <<Str(S_2021_01_05), Str(S_2021_02_30), Day(2020, 12, 31)>>
    /\ validation_results[1].date_range # None
    /\ validation_results[1].date_range[1].min # validation_results[1].date_range[1].max

-----------------------------------------------------------------------------
(* save_processed_data                                                     *)

MaxSaves == 2

S_csv == <<".","c","s","v">>
S_processed_dir == <<"d","a","t","a","/","p","r","o","c","e","s","s","e","d">>

\* str.endswith
endswith(s, suffix) ==
    Len(s) >= Len(suffix) /\ SubSeq(s, Len(s) - Len(suffix) + 1, Len(s)) = suffix

\* self.processed_dir / filename, for a filename without directory
PathJoin(dir, filename) == dir \o <<"/">> \o filename

\* fault variant of CsvName: the suffix is appended to every filename
AlwaysAppendCsv(filename) == filename \o S_csv

\* lines 453-455: if not filename.endswith('.csv'): filename += '.csv'
CsvName(filename) == IF ~endswith(filename, S_csv) THEN filename \o S_csv ELSE filename

\* lines 452-455: the path written and returned
FilePath(filename) == PathJoin(S_processed_dir, CsvName(filename))

\* one field of the file to_csv writes: text as it is, a missing value as the empty
\* field, a Timestamp as its date
CsvField(c) ==
    CASE c.k = "str" -> c.v
      [] c.k = "ts" -> strftime(c)
      [] OTHER -> <<>>

\* df.to_csv(file_path, index=False): the header and one line of fields per row,
\* without the index
to_csv(d) ==
    [header |-> d.columns,
     lines |-> [k \in DOMAIN d.rows |->
                  [j \in DOMAIN d.rows[k].cells |-> CsvField(d.rows[k].cells[j])]]]

\* the filenames explored: names without directory, as the docstring asks (line 444)
FileNames ==
    {<<"a">>, <<"a">> \o S_csv, <<"a",".","C","S","V">>, S_csv,
     <<"a">> \o S_csv \o <<"x">>, <<"c","s","v">>}

\* the tables explored
SavedTables ==
    {EmptyDataFrame,
     ReadAll(StoredTable(<<S_pillar>>, << <<Str(S_access)>> >>)),
     ReadAll(StoredTable(<<S_date>>, << <<NaN>>, <<Day(2020, 12, 31)>> >>))}

InitSave ==
    /\ IdleLoader /\ IdleValidator /\ IdleNormalizer /\ IdleDashboard
    /\ disk = <<>>
    /\ saves = <<>>

\* save_processed_data(df, filename), lines 435-460
SaveProcessedData ==
    /\ Len(saves) < MaxSaves
    /\ \E d \in SavedTables, filename \in FileNames :
          LET file_path == FilePath(filename)
          IN  /\ disk' = (file_path :> to_csv(d)) @@ disk
              /\ saves' = Append(saves, [filename |-> filename, df |-> d,
                                          file_path |-> file_path])
    /\ UNCHANGED <<loaderVars, validatorVars, normVars, dashVars>>

NextSave == SaveProcessedData

SpecSave == InitSave /\ [][NextSave]_vars

\* the position of the last "/" of a path
LastSlash(path) ==
    CHOOSE k \in DOMAIN path : path[k] = "/" /\ \A m \in DOMAIN path : path[m] = "/" => m <= k

\* Path.parent and Path.name
Parent(path) == SubSeq(path, 1, LastSlash(path) - 1)
Name(path) == SubSeq(path, LastSlash(path) + 1, Len(path))

\* C14: for a filename without directory, every call of save_processed_data returns
\* a path whose parent is the processed directory and whose name ends in ".csv":
\* the filename itself when it ends in ".csv", otherwise the filename followed by
\* one ".csv"; the file at that path holds what the latest call that returned the
\* path wrote, and the directory holds one file per returned path.
C14_SavedUnderCsvName ==
    /\ \A k \in DOMAIN saves :
          LET e == saves[k]
              name == Name(e.file_path)
          IN  /\ Parent(e.file_path) = S_processed_dir
              /\ Len(name) >= 4
              /\ SubSeq(name, Len(name) - 3, Len(name)) = <<".", "c", "s", "v">>
              /\ IF Len(e.filename) >= 4
                    /\ SubSeq(e.filename, Len(e.filename) - 3, Len(e.filename))
                          = <<".", "c", "s", "v">>
                 THEN name = e.filename
                 ELSE name = e.filename \o <<".", "c", "s", "v">>
              /\ e.file_path \in DOMAIN disk
              /\ (\A m \in DOMAIN saves : m > k => saves[m].file_path # e.file_path)
                    => disk[e.file_path] = to_csv(e.df)
    /\ DOMAIN disk = {saves[k].file_path : k \in DOMAIN saves}
    /\ \A k, m \in DOMAIN saves :
          saves[k].filename = saves[m].filename => saves[k].file_path = saves[m].file_path

\* "a.csv" is saved twice with different tables: one file, holding the second table
C14_Witness ==
    /\ Len(saves) = 2
    /\ saves[1].filename = <<"a", ".", "c", "s", "v">>
    /\ saves[2].filename = <<"a", ".", "c", "s", "v">>
    /\ saves[1].df # saves[2].df
    /\ Cardinality(DOMAIN disk) = 1
    /\ disk[saves[2].file_path] = to_csv(saves[2].df)
    /\ Name(saves[2].file_path) = <<"a", ".", "c", "s", "v">>

\* "a" is saved as "a.csv"
C14_WitnessAppended ==
    /\ Len(saves) = 1
    /\ saves[1].filename = <<"a">>
    /\ Name(saves[1].file_path) = <<"a", ".", "c", "s", "v">>

-----------------------------------------------------------------------------
(* The dashboard: load_data (src/dashboard/app.py)                         *)

MaxMetricRows == 2

S_Indicator == <<"I","n","d","i","c","a","t","o","r">>
S_Year == <<"Y","e","a","r">>
S_Forecast_pct == <<"F","o","r","e","c","a","s","t","_","%">>
S_Range_pp == <<"R","a","n","g","e","_","p","p">>
S_ACC_OWNERSHIP == <<"A","C","C","_","O","W","N","E","R","S","H","I","P">>
S_USG_P2P == <<"U","S","G","_","P","2","P">>
S_55_2_pct == <<"5","5",".","2","%">>
S_58_pct == <<" ","5","8","%">>
S_soon == <<"s","o","o","n">>
S_wide == <<"w","i","d","e">>

\* a numeric cell (int64 or float64), held in tenths
Num(tenths) == [k |-> "num", v |-> <<tenths>>]
Whole(n) == Num(10 * n)

\* the keys of data, in the order load_data fills them
ArtifactKeys ==
    <<"baseline", "augmented", "scenarios", "forecasts", "comparison_2027",
      "historical", "events", "executive_summary", "report">>

\* a file of data/processed: whether path.exists(), whether reading it succeeds,
\* and what it holds
Absent == [exists |-> FALSE, readable |-> FALSE, content |-> <<>>]
Unreadable == [exists |-> TRUE, readable |-> FALSE, content |-> <<>>]
Present(content) == [exists |-> TRUE, readable |-> TRUE, content |-> content]

\* values[0] of the selection / .iloc[0]: the first row of the mask
FirstRow(rows, mask) == BooleanSelect(rows, mask)[1]

\* historical_df[historical_df['record_type'] == 'observation'].copy()
Observations(d) ==
    LET j == CHOOSE x \in DOMAIN d.columns : d.columns[x] = S_record_type
    IN  [d EXCEPT !.rows =
            BooleanSelect(d.rows, [k \in DOMAIN d.rows |-> d.rows[k].cells[j] = Str(S_observation)])]

\* pd.read_csv(path, index_col=0): the first column becomes the index
read_csv_index_col0(t) ==
    [columns |-> Tail(t.columns),
     rows |-> [k \in 1..Len(t.data) |->
                 [index |-> t.data[k][1], src |-> k - 1, cells |-> Tail(t.data[k])]]]

\* lines 67-124, one of the nine blocks: the entry the file adds to data, if any;
\* exc is the exception of a read that fails.  The text and JSON files are read
\* inside `with open(...) as f`, which closes f on every way out of the block.
LoadArtifact(key, a, d) ==
    IF ~a.exists THEN [exc |-> "", data |-> d]
    ELSE IF ~a.readable THEN [exc |-> "ReadError", data |-> d]
    ELSE CASE key = "historical" ->
                [exc |-> "",
                 data |-> IF S_record_type \in Range(a.content.columns)
                          THEN (key :> Observations(ReadAll(a.content))) @@ d
                          ELSE d]
           [] key = "events" ->
                [exc |-> "", data |-> (key :> read_csv_index_col0(a.content)) @@ d]
           [] key \in {"executive_summary", "report"} ->
                [exc |-> "", data |-> (key :> a.content) @@ d]
           [] OTHER ->
                [exc |-> "", data |-> (key :> ReadAll(a.content)) @@ d]

\* lines 66-131: the nine blocks inside the one try; the first read that raises
\* ends them all
RECURSIVE LoadArtifacts(_, _, _)
LoadArtifacts(keys, files, d) ==
    IF keys = <<>> THEN [exc |-> "", data |-> d]
    ELSE LET out == LoadArtifact(Head(keys), files[Head(keys)], d)
         IN  IF out.exc # "" THEN out
             ELSE LoadArtifacts(Tail(keys), files, out.data)

\* load_data(), lines 40-131
load_data(arts) ==
    IF ~arts.found
    THEN [data |-> <<>>, data_loaded |-> FALSE]
    ELSE LET out == LoadArtifacts(ArtifactKeys, arts.files, <<>>)
         IN  IF out.exc # ""
             THEN [data |-> out.data, data_loaded |-> FALSE]
             ELSE [data |-> out.data, data_loaded |-> DOMAIN out.data # {}]

-----------------------------------------------------------------------------
(* The dashboard: the Overview page                                        *)

\* str.replace(ch, '')
Remove(str, ch) == SelectSeq(str, LAMBDA c : c # ch)

\* float(str) for plain decimal numerals, in tenths: surrounding whitespace and a
\* sign are accepted; anything else raises ValueError (None here).  The numerals
\* explored have at most one decimal.
float(str) ==
    LET t == strip(str)
        neg == t # <<>> /\ t[1] = "-"
        u == IF t # <<>> /\ t[1] \in {"+", "-"} THEN Tail(t) ELSE t
        dots == {k \in DOMAIN u : u[k] = "."}
    IN  IF \/ \E k \in DOMAIN u : ~IsDigit(u[k]) /\ u[k] # "."
           \/ Cardinality(dots) > 1
           \/ ~\E k \in DOMAIN u : IsDigit(u[k])
        THEN None
        ELSE LET pt == IF dots = {} THEN Len(u) + 1 ELSE CHOOSE k \in dots : TRUE
                 whole == SubSeq(u, 1, pt - 1)
                 frac == SubSeq(u, pt + 1, Len(u))
                 tenths == 10 * Number(whole) + (IF frac = <<>> THEN 0 ELSE DigitValue(frac[1]))
             IN  <<IF neg THEN 0 - tenths ELSE tenths>>

\* series == value, elementwise: values of different types are unequal
CellEq(a, b) == a.k = b.k /\ a.v = b.v

\* lines 148-152, the body of the try of get_forecast_value
ForecastLookup(t, indicator, year) ==
    IF S_Indicator \notin Range(t.columns) \/ S_Year \notin Range(t.columns)
    THEN [exc |-> "KeyError", value |-> None]
    ELSE LET i == ColumnOf(t, S_Indicator)
             y == ColumnOf(t, S_Year)
             mask == [k \in DOMAIN t.rows |->
                        /\ CellEq(t.rows[k].cells[i], Str(indicator))
                        /\ CellEq(t.rows[k].cells[y], Whole(year))]
         IN  IF S_Forecast_pct \notin Range(t.columns)
             THEN [exc |-> "KeyError", value |-> None]
             ELSE IF \A k \in DOMAIN mask : ~mask[k]
             THEN [exc |-> "IndexError", value |-> None]
             ELSE LET value == FirstRow(t.rows, mask).cells[ColumnOf(t, S_Forecast_pct)]
                  IN  IF value.k # "str"
                      THEN [exc |-> "AttributeError", value |-> None]
                      ELSE IF float(Remove(value.v, "%")) = None
                      THEN [exc |-> "ValueError", value |-> None]
                      ELSE [exc |-> "", value |-> float(Remove(value.v, "%"))]

\* fault variant of ExceptReturnNone: no handler, the exception leaves the function
Propagate(out) == out

\* lines 153-154: except: return None
ExceptReturnNone(out) == IF out.exc # "" THEN [exc |-> "", value |-> None] ELSE out

\* get_forecast_value(indicator, year), lines 145-155
get_forecast_value(d, indicator, year) ==
    IF "forecasts" \in DOMAIN d
    THEN ExceptReturnNone(ForecastLookup(d["forecasts"], indicator, year))
    ELSE [exc |-> "", value |-> None]

\* what one section of the page shows
Metric(value) == [kind |-> "metric", value |-> <<value>>]
Placeholder == [kind |-> "placeholder", value |-> <<>>]
Text(content) == [kind |-> "text", value |-> <<content>>]
NotShown == [kind |-> "none", value |-> <<>>]

\* pd.notna
notna(c) == c.k \notin {"nan", "nat"}

\* lines 204-218, the body of the try of the scenario range
RangeLookup(t) ==
    IF S_Indicator \notin Range(t.columns)
    THEN [exc |-> "KeyError", value |-> None]
    ELSE LET i == ColumnOf(t, S_Indicator)
             mask == [k \in DOMAIN t.rows |-> CellEq(t.rows[k].cells[i], Str(S_ACC_OWNERSHIP))]
         IN  IF \A k \in DOMAIN mask : ~mask[k]
             THEN [exc |-> "IndexError", value |-> None]
             ELSE LET row == FirstRow(t.rows, mask)
                  IN  IF S_Range_pp \notin Range(t.columns)
                      THEN [exc |-> "", value |-> None]
                      ELSE IF notna(row.cells[ColumnOf(t, S_Range_pp)])
                      THEN [exc |-> "", value |-> <<row.cells[ColumnOf(t, S_Range_pp)]>>]
                      ELSE [exc |-> "", value |-> None]

\* lines 202-230: the scenario range; the value shown is the stored one followed by
\* "pp"
ScenarioRange(d) ==
    IF "comparison_2027" \in DOMAIN d
    THEN LET out == RangeLookup(d["comparison_2027"])
         IN  IF out.exc # "" \/ out.value = None THEN Placeholder ELSE Metric(out.value[1])
    ELSE Placeholder

\* data['events'].notna().sum().sum()
CountNotna(d) ==
    Cardinality({<<k, j>> \in (DOMAIN d.rows) \X (DOMAIN d.columns) : notna(d.rows[k].cells[j])})

\* NFIS-II target, in tenths (line 184)
target_2030 == 700

\* lines 137-290: the Overview page
Overview(d, loaded) ==
    IF ~loaded
    THEN [exc |-> "", warning |-> TRUE, forecast_2027 |-> NotShown, gap |-> NotShown,
          range |-> NotShown, summary |-> NotShown, datasets_loaded |-> NotShown,
          historical_points |-> NotShown, event_relationships |-> NotShown]
    ELSE LET acc_2027 == get_forecast_value(d, S_ACC_OWNERSHIP, 2027)
         IN  IF acc_2027.exc # ""
             THEN [exc |-> acc_2027.exc, warning |-> FALSE, forecast_2027 |-> NotShown,
                   gap |-> NotShown, range |-> NotShown, summary |-> NotShown,
                   datasets_loaded |-> NotShown, historical_points |-> NotShown,
                   event_relationships |-> NotShown]
             ELSE [exc |-> "",
                   warning |-> FALSE,
                   forecast_2027 |->
                      IF acc_2027.value # None THEN Metric(acc_2027.value[1]) ELSE Placeholder,
                   gap |->
                      IF acc_2027.value # None THEN Metric(target_2030 - acc_2027.value[1])
                      ELSE Placeholder,
                   range |-> ScenarioRange(d),
                   summary |->
                      IF "executive_summary" \in DOMAIN d THEN Text(d["executive_summary"])
                      ELSE Placeholder,
                   datasets_loaded |->
                      Metric(Cardinality(DOMAIN d \ {"executive_summary", "report"})),
                   historical_points |->
                      Metric(IF "historical" \in DOMAIN d THEN Len(d["historical"].rows) ELSE 0),
                   event_relationships |->
                      Metric(IF "events" \in DOMAIN d THEN CountNotna(d["events"]) ELSE 0)]

-----------------------------------------------------------------------------
(* The dashboard: the explored directories and the run                     *)

ForecastsTable ==
    StoredTable(<<S_Indicator, S_Year, S_Forecast_pct>>,
                << <<Str(S_ACC_OWNERSHIP), Whole(2027), Str(S_55_2_pct)>> >>)
ComparisonTable ==
    StoredTable(<<S_Indicator, S_Range_pp>>, << <<Str(S_ACC_OWNERSHIP), Num(125)>> >>)
HistoricalTable ==
    StoredTable(<<S_record_type, S_pillar>>,
                << <<Str(S_observation), Str(S_access)>>, <<Str(S_impact_link), NaN>> >>)
HistoricalTableNoRecordType == StoredTable(<<S_pillar>>, << <<Str(S_access)>> >>)
EventsTable ==
    StoredTable(<<S_indicator, S_ACC_OWNERSHIP, S_USG_P2P>>,
                << <<Str(S_access), Num(15), NaN>> >>)
PlainTable == StoredTable(<<S_Indicator>>, << <<Str(S_ACC_OWNERSHIP)>> >>)

\* what each file may be in a directory where every readable file is well formed
FileStates(key) ==
    CASE key = "forecasts" -> {Absent, Unreadable, Present(ForecastsTable)}
      [] key = "comparison_2027" -> {Absent, Unreadable, Present(ComparisonTable)}
      [] key = "historical" ->
            {Absent, Unreadable, Present(HistoricalTable), Present(HistoricalTableNoRecordType)}
      [] key = "events" -> {Absent, Unreadable, Present(EventsTable)}
      [] key = "executive_summary" -> {Absent, Unreadable, Present("summary")}
      [] key = "report" -> {Absent, Unreadable, Present("report")}
      [] OTHER -> {Absent, Unreadable, Present(PlainTable)}

NoFiles == [key \in Range(ArtifactKeys) |-> Absent]

\* every assignment to each listed file of one of its states
RECURSIVE FilesOver(_)
FilesOver(states) ==
    IF states = <<>> THEN {<<>>}
    ELSE {(Head(states).key :> a) @@ f : a \in Head(states).states, f \in FilesOver(Tail(states))}

\* the directory is not found (lines 62-64), or it holds any combination of files
Directories ==
    {[found |-> FALSE, files |-> NoFiles]}
    \cup {[found |-> TRUE, files |-> f] : f \in FilesOver([k \in DOMAIN ArtifactKeys |->
                                [key |-> ArtifactKeys[k], states |-> FileStates(ArtifactKeys[k])]])}

InitDashboard ==
    /\ IdleLoader /\ IdleValidator /\ IdleNormalizer /\ IdleSaver
    /\ artifacts \in Directories
    /\ data = <<>>
    /\ data_loaded = FALSE
    /\ dpc = "start"
    /\ screen = <<>>

\* line 134: data, data_loaded = load_data()
LoadData ==
    /\ dpc = "start"
    /\ data' = load_data(artifacts).data
    /\ data_loaded' = load_data(artifacts).data_loaded
    /\ dpc' = "loaded"
    /\ UNCHANGED <<artifacts, screen>>
    /\ UNCHANGED <<loaderVars, validatorVars, normVars, saveVars>>

\* lines 137-290: the page is drawn
RenderOverview ==
    /\ dpc = "loaded"
    /\ screen' = Overview(data, data_loaded)
    /\ dpc' = "rendered"
    /\ UNCHANGED <<artifacts, data, data_loaded>>
    /\ UNCHANGED <<loaderVars, validatorVars, normVars, saveVars>>

NextDashboard == LoadData \/ RenderOverview

SpecDashboard == InitDashboard /\ [][NextDashboard]_vars

-----------------------------------------------------------------------------
(* Properties of the dashboard                                             *)

\* the file of the artifact is in the directory and can be read
Readable(key) == artifacts.files[key].exists /\ artifacts.files[key].readable

\* C13 (as claimed): whatever subset of the nine artifacts is present, data has an
\* entry for each artifact that is present and readable and none for an absent
\* one, and the page is drawn with the sections of the artifacts that are there:
\* the executive summary and the 2027 forecast are shown when their files are
\* readable, whatever the state of the other files, and an absent summary gives
\* its placeholder when some artifact is loaded.
C13_DegradesPerArtifact ==
    dpc = "rendered" =>
        /\ screen.exc = ""
        /\ \A key \in Range(ArtifactKeys) :
              /\ Readable(key) => key \in DOMAIN data
              /\ ~artifacts.files[key].exists => key \notin DOMAIN data
        /\ Readable("executive_summary") => screen.summary.kind = "text"
        /\ Readable("forecasts") => screen.forecast_2027.kind = "metric"
        /\ (DOMAIN data # {} /\ ~artifacts.files["executive_summary"].exists)
              => screen.summary.kind = "placeholder"

\* in a directory where no file is unreadable and the historical file has its
\* record_type column, the claim's degradation does hold
C13_HoldsWithoutUnreadable ==
    (/\ dpc = "rendered"
     /\ \A key \in Range(ArtifactKeys) : artifacts.files[key] # Unreadable
     /\ artifacts.files["historical"] # Present(HistoricalTableNoRecordType))
    => /\ screen.exc = ""
       /\ \A key \in Range(ArtifactKeys) : artifacts.files[key].exists <=> key \in DOMAIN data
       /\ Readable("executive_summary") => screen.summary.kind = "text"
       /\ Readable("forecasts") => screen.forecast_2027.kind = "metric"

-----------------------------------------------------------------------------
(* The metric derivations over explored tables                             *)

\* the rows explored in final_forecast_table.csv: the row asked for, rows of another
\* year or indicator, a year stored as text; a value that parses, with and without
\* padding, one that does not, and a numeric one
ForecastRows ==
    {<<e[1], e[2], v>> :
        e \in {<<Str(S_ACC_OWNERSHIP), Whole(2027)>>, <<Str(S_ACC_OWNERSHIP), Whole(2026)>>,
               <<Str(S_USG_P2P), Whole(2027)>>,
               <<Str(S_ACC_OWNERSHIP), Str(<<"2","0","2","7">>)>>},
        v \in {Str(S_55_2_pct), Str(S_58_pct), Str(S_soon), Num(552)}}

ForecastTables ==
    {StoredTable(<<S_Indicator, S_Year, S_Forecast_pct>>, rows) :
        rows \in UNION {[1..n -> ForecastRows] : n \in 0..MaxMetricRows}}
    \cup {StoredTable(<<S_Indicator, S_Year>>, << <<Str(S_ACC_OWNERSHIP), Whole(2027)>> >>),
          StoredTable(<<S_Indicator, S_Forecast_pct>>,
                      << <<Str(S_ACC_OWNERSHIP), Str(S_55_2_pct)>> >>),
          StoredTable(<<S_Year, S_Forecast_pct>>, << <<Whole(2027), Str(S_55_2_pct)>> >>)}

\* the rows explored in scenario_comparison_2027.csv
ComparisonRows ==
    {<<Str(i), v>> : i \in {S_ACC_OWNERSHIP, S_USG_P2P}, v \in {Num(125), NaN, Str(S_wide)}}

ComparisonTables ==
    {StoredTable(<<S_Indicator, S_Range_pp>>, rows) :
        rows \in UNION {[1..n -> ComparisonRows] : n \in 0..MaxMetricRows}}
    \cup {StoredTable(<<S_Indicator>>, << <<Str(S_ACC_OWNERSHIP)>> >>),
          StoredTable(<<S_Range_pp>>, << <<Num(125)>> >>)}

\* directories where one of the two tables behind the metrics is any explored table
MetricFiles ==
    ((({Absent} \cup {Present(t) : t \in ForecastTables})
        \X {Absent, Present(ComparisonTable)})
     \cup ({Absent, Present(ForecastsTable)}
        \X ({Absent} \cup {Present(t) : t \in ComparisonTables})))

MetricDirectories ==
    {[found |-> TRUE,
      files |-> [NoFiles EXCEPT !["baseline"] = b,
                                !["forecasts"] = fc[1],
                                !["comparison_2027"] = fc[2]]] :
        b \in {Absent, Present(PlainTable)}, fc \in MetricFiles}

InitMetrics ==
    /\ IdleLoader /\ IdleValidator /\ IdleNormalizer /\ IdleSaver
    /\ artifacts \in MetricDirectories
    /\ data = <<>>
    /\ data_loaded = FALSE
    /\ dpc = "start"
    /\ screen = <<>>

SpecMetrics == InitMetrics /\ [][NextDashboard]_vars

\* the rows of the loaded forecasts table for ACC_OWNERSHIP in 2027
ForecastMatches ==
    LET t == data["forecasts"]
    IN  {k \in DOMAIN t.rows :
            /\ CellEq(t.rows[k].cells[ColumnOf(t, S_Indicator)], Str(S_ACC_OWNERSHIP))
            /\ CellEq(t.rows[k].cells[ColumnOf(t, S_Year)], Whole(2027))}

\* the Forecast_% value of the first of them
ForecastValue ==
    LET t == data["forecasts"]
        k == CHOOSE x \in ForecastMatches : \A y \in ForecastMatches : x <= y
    IN  t.rows[k].cells[ColumnOf(t, S_Forecast_pct)]

\* the table is loaded with its three columns, a row matches, and the value of the
\* first matching row is text that parses as a number once "%" is taken out
ForecastParses ==
    /\ "forecasts" \in DOMAIN data
    /\ {S_Indicator, S_Year, S_Forecast_pct} \subseteq Range(data["forecasts"].columns)
    /\ ForecastMatches # {}
    /\ ForecastValue.k = "str"
    /\ float(Remove(ForecastValue.v, "%")) # None

\* the rows of the loaded comparison table for ACC_OWNERSHIP
RangeMatches ==
    LET t == data["comparison_2027"]
    IN  {k \in DOMAIN t.rows :
            CellEq(t.rows[k].cells[ColumnOf(t, S_Indicator)], Str(S_ACC_OWNERSHIP))}

\* the Range_pp value of the first of them
RangeValue ==
    LET t == data["comparison_2027"]
        k == CHOOSE x \in RangeMatches : \A y \in RangeMatches : x <= y
    IN  t.rows[k].cells[ColumnOf(t, S_Range_pp)]

\* the table is loaded with its two columns, a row matches, and the value of the
\* first matching row is not missing
RangeAvailable ==
    /\ "comparison_2027" \in DOMAIN data
    /\ {S_Indicator, S_Range_pp} \subseteq Range(data["comparison_2027"].columns)
    /\ RangeMatches # {}
    /\ RangeValue.k \notin {"nan", "nat"}

\* the cell is a number or text that parses as one
IsNumber(c) == c.k = "num" \/ (c.k = "str" /\ float(c.v) # None)

\* C11 (as claimed): when the Overview page is drawn from loaded data, no exception
\* leaves a metric derivation; the 2027 forecast is a number exactly when the
\* forecasts table is there with a matching row whose value parses, and the
\* placeholder otherwise; the scenario range is a value only when the comparison
\* table is there with a matching row whose value is a number, and the placeholder
\* otherwise.
C11_UnavailableUnlessValueParses ==
    (dpc = "rendered" /\ data_loaded) =>
        /\ screen.exc = ""
        /\ screen.forecast_2027.kind = (IF ForecastParses THEN "metric" ELSE "placeholder")
        /\ screen.range.kind =
              (IF RangeAvailable /\ IsNumber(RangeValue) THEN "metric" ELSE "placeholder")

\* C11 (amended): when the Overview page is drawn from loaded data, no exception
\* leaves a metric derivation.  The 2027 forecast is the parsed number, and the gap
\* the target less that number, exactly when the forecasts table is there with its
\* columns and a matching row whose value is text that parses once "%" is taken
\* out; both are the placeholder otherwise.  The scenario range is the placeholder
\* when the comparison table, its Indicator or Range_pp column or a matching row is
\* absent or the value is missing, and otherwise the stored value as it is, which
\* is not parsed.
C11_MetricsNeverRaise ==
    (dpc = "rendered" /\ data_loaded) =>
        /\ screen.exc = ""
        /\ IF ForecastParses
           THEN /\ screen.forecast_2027 = Metric(float(Remove(ForecastValue.v, "%"))[1])
                /\ screen.gap = Metric(target_2030 - float(Remove(ForecastValue.v, "%"))[1])
           ELSE /\ screen.forecast_2027 = Placeholder
                /\ screen.gap = Placeholder
        /\ screen.range = (IF RangeAvailable THEN Metric(RangeValue) ELSE Placeholder)

\* the first matching row holds "soon": the lookup fails inside the try and the
\* page shows the placeholder
C11_Witness ==
    /\ dpc = "rendered" /\ data_loaded
    /\ "forecasts" \in DOMAIN data
    /\ {S_Indicator, S_Year, S_Forecast_pct} \subseteq Range(data["forecasts"].columns)
    /\ ForecastMatches = {1, 2}
    /\ ForecastValue = Str(S_soon)
    /\ screen.exc = ""
    /\ screen.forecast_2027 = Placeholder

\* the second row is the first that matches, and " 58%" is shown as 58.0
C11_WitnessNumber ==
    /\ dpc = "rendered" /\ data_loaded
    /\ ForecastParses
    /\ ForecastMatches = {2}
    /\ screen.forecast_2027 = Metric(580)
    /\ screen.gap = Metric(120)

\* text in Range_pp is shown as it is
C11_WitnessRangeText ==
    /\ dpc = "rendered" /\ data_loaded
    /\ RangeAvailable
    /\ screen.range = Metric(Str(S_wide))

====
